---------------------------- MODULE Spec2Model ----------------------------
(***************************************************************************)
(* Chain / brand detection of the business-site advisor:                   *)
(*   utils/city_chain_detector.py  (CityChainDetector)                     *)
(*   utils/llm_brand_detector.py   (LLMBrandDetector)                      *)
(*   agents/workflow.py            (create_workflow)                       *)
(*                                                                         *)
(* A business name is a sequence of one-character strings, so that the     *)
(* name normaliser and the similarity ratio are computed character by      *)
(* character, as re.sub and difflib.SequenceMatcher compute them.          *)
(***************************************************************************)
EXTENDS Integers, Sequences, FiniteSets, TLC

VARIABLES
    pc,                \* position of the driver: which call comes next
    nm_base,           \* normaliser: base name the input was built from
    nm_qual,           \* normaliser: the branch qualifier added to nm_base
    nm_name,           \* normaliser: the input name
    nm_key,            \* normaliser: _normalize_brand_name(nm_name)
    nm_key_base,       \* normaliser: _normalize_brand_name(nm_base)
    nm_key_again,      \* normaliser: _normalize_brand_name(nm_key)
    businesses,        \* detector: the result set handed to the detector
    name_groups,       \* detector: name_groups of detect_chains_in_results
    result_chains,     \* detector: the dict detect_chains_in_results returns
    reordered,         \* detector: the result set in another order
    reordered_chains,  \* detector: detect_chains_in_results(reordered)
    city_db,           \* index: the backing list at city_database_path
    city_businesses_df,\* index: self.city_businesses_df
    chain_cache,       \* index: self.chain_cache
    lookup_name,       \* index: argument of the last check_if_chain call
    chain_info,        \* index: result of the last check_if_chain call
    llm_name,          \* classifier: business_name of identify_brand_status
    llm_reply,         \* classifier: what the client call gave
    brand_info,        \* classifier: result of identify_brand_status
    batch_index,       \* batch: position of the loop of batch_identify_brands
    llm_calls,         \* batch: indices of the businesses a call was issued for
    outstanding_calls, \* batch: number of client calls that have not returned
    classified_businesses, \* batch: the list batch_identify_brands builds
    enriched,          \* enrichment: list enrich_businesses_with_chain_data returns
    wf_node,           \* workflow: the node that ran last (START before the first)
    wf_visited,        \* workflow: the nodes that ran, in order
    wf_current_step,   \* workflow: state["current_step"], as <<node, outcome>>
    wf_error,          \* workflow: the node whose message state["error"] holds
    wf_scraper_executed, \* workflow: state["scraper_executed"] (FALSE while unset)
    api_response,      \* api: the AnalysisResponse of /api/analyze, <<>> before it
    reviews_data,      \* state["reviews_data"]
    review_sentiments, \* state["sentiment_analysis"]["review_sentiments"]
    nearby_businesses, \* state["nearby_businesses"] as chain_brand_node returns it
    chain_brands,      \* state["chain_brands"]
    current_step       \* state["current_step"] of the two review nodes

normVars == <<nm_base, nm_qual, nm_name, nm_key, nm_key_base, nm_key_again>>
detectVars == <<businesses, name_groups, result_chains, reordered, reordered_chains>>
indexVars == <<city_db, city_businesses_df, chain_cache, lookup_name, chain_info>>
llmVars == <<llm_name, llm_reply, brand_info>>
enrichVars == <<batch_index, llm_calls, outstanding_calls, classified_businesses,
               enriched>>
wfVars == <<wf_node, wf_visited, wf_current_step, wf_error, wf_scraper_executed,
           api_response>>
cbVars == <<reviews_data, review_sentiments, nearby_businesses, chain_brands,
           current_step>>
vars == <<pc, normVars, detectVars, indexVars, llmVars, enrichVars, wfVars, cbVars>>

-----------------------------------------------------------------------------
(* Characters                                                              *)

UpperCase == <<"A","B","C","D","E","F","G","H","I","J","K","L","M",
               "N","O","P","Q","R","S","T","U","V","W","X","Y","Z">>
LowerCase == <<"a","b","c","d","e","f","g","h","i","j","k","l","m",
               "n","o","p","q","r","s","t","u","v","w","x","y","z">>
Digits == {"0","1","2","3","4","5","6","7","8","9"}
Letters == {UpperCase[i] : i \in 1..26} \cup {LowerCase[i] : i \in 1..26}

\* str.lower() on one character
LowerChar(c) ==
    IF \E i \in 1..26 : UpperCase[i] = c
    THEN LowerCase[CHOOSE i \in 1..26 : UpperCase[i] = c]
    ELSE c

\* regex \s, \d, \w on one character
IsSpace(c) == c = " "
IsDigit(c) == c \in Digits
IsWordChar(c) == c \in Letters \/ c \in Digits \/ c = "_"

\* name.lower()
Lower(s) == [i \in 1..Len(s) |-> LowerChar(s[i])]

\* whether the literal lit stands in s at position j
MatchLit(s, j, lit) ==
    /\ j + Len(lit) - 1 <= Len(s)
    /\ \A k \in 1..Len(lit) : s[j + k - 1] = lit[k]

\* first position >= j of s that does not satisfy the class (Len(s)+1 if none)
RECURSIVE SkipSpace(_, _)
SkipSpace(s, j) == IF j <= Len(s) /\ IsSpace(s[j]) THEN SkipSpace(s, j + 1) ELSE j
RECURSIVE SkipDigits(_, _)
SkipDigits(s, j) == IF j <= Len(s) /\ IsDigit(s[j]) THEN SkipDigits(s, j + 1) ELSE j
RECURSIVE SkipWord(_, _)
SkipWord(s, j) == IF j <= Len(s) /\ IsWordChar(s[j]) THEN SkipWord(s, j + 1) ELSE j

\* start of the whitespace run that ends just before position j
RECURSIVE SpaceRunStart(_, _)
SpaceRunStart(s, j) ==
    IF j > 1 /\ IsSpace(s[j - 1]) THEN SpaceRunStart(s, j - 1) ELSE j

\* str.replace(old, "") : leftmost, non-overlapping occurrences of old removed
RECURSIVE RemoveAll(_, _, _)
RemoveAll(s, old, i) ==
    IF i > Len(s) THEN <<>>
    ELSE IF MatchLit(s, i, old) THEN RemoveAll(s, old, i + Len(old))
    ELSE <<s[i]>> \o RemoveAll(s, old, i + 1)

-----------------------------------------------------------------------------
(* CityChainDetector._normalize_brand_name                                 *)

\* re.sub(r'\s*-\s*.*', '', s) and re.sub(r'\s*,\s*.*', '', s): everything
\* from the whitespace before the first ch to the end of the string
StripFromChar(s, ch) ==
    IF \E j \in 1..Len(s) : s[j] = ch
    THEN LET j == CHOOSE k \in 1..Len(s) :
                     s[k] = ch /\ \A m \in 1..(k - 1) : s[m] # ch
         IN SubSeq(s, 1, SpaceRunStart(s, j) - 1)
    ELSE s

\* faulty variant of StripBranchNumber: the pattern written \s+#\d+, which asks for
\* whitespace before the "#"
RECURSIVE StripSpacedBranchNumber(_, _)
StripSpacedBranchNumber(s, i) ==
    IF i > Len(s) THEN <<>>
    ELSE LET k == SkipSpace(s, i) IN
         IF k > i /\ k + 1 <= Len(s) /\ s[k] = "#" /\ IsDigit(s[k + 1])
         THEN StripSpacedBranchNumber(s, SkipDigits(s, k + 1))
         ELSE <<s[i]>> \o StripSpacedBranchNumber(s, i + 1)

\* re.sub(r'\s*#\d+', '', s), scanning from position i
RECURSIVE StripBranchNumber(_, _)
StripBranchNumber(s, i) ==
    IF i > Len(s) THEN <<>>
    ELSE LET k == SkipSpace(s, i) IN
         IF k + 1 <= Len(s) /\ s[k] = "#" /\ IsDigit(s[k + 1])
         THEN StripBranchNumber(s, SkipDigits(s, k + 1))
         ELSE <<s[i]>> \o StripBranchNumber(s, i + 1)

\* re.sub(r'\s*\(.*\)', '', s): the greedy .* runs from the first "(" that has
\* a ")" after it to the last ")"
StripParens(s) ==
    LET opens == {j \in 1..Len(s) : s[j] = "("}
        closes == {j \in 1..Len(s) : s[j] = ")"}
    IN IF opens = {} \/ closes = {} THEN s
       ELSE LET p == CHOOSE j \in opens : \A m \in opens : j <= m
                q == CHOOSE j \in closes : \A m \in closes : m <= j
            IN IF p < q
               THEN SubSeq(s, 1, SpaceRunStart(s, p) - 1) \o SubSeq(s, q + 1, Len(s))
               ELSE s

\* end (exclusive) of a match of  \s+ kw tail  that starts at i, or 0 if the
\* pattern does not match at i.  tail: "optdigits" \s*\d*, "reqdigits" \s+\d+,
\* "reqword" \s+\w+, "rest" .*
KeywordMatchEnd(s, i, kw, tail) ==
    IF ~(i <= Len(s) /\ IsSpace(s[i])) THEN 0
    ELSE LET k == SkipSpace(s, i) IN
         IF ~MatchLit(s, k, kw) THEN 0
         ELSE LET e == k + Len(kw)
                  w == SkipSpace(s, e)
              IN CASE tail = "optdigits" -> SkipDigits(s, w)
                   [] tail = "reqdigits" ->
                        IF w > e /\ SkipDigits(s, w) > w THEN SkipDigits(s, w) ELSE 0
                   [] tail = "reqword" ->
                        IF w > e /\ SkipWord(s, w) > w THEN SkipWord(s, w) ELSE 0
                   [] OTHER -> Len(s) + 1

\* re.sub(r'\s+kw<tail>', '', s), scanning from position i
RECURSIVE StripKeyword(_, _, _, _)
StripKeyword(s, i, kw, tail) ==
    IF i > Len(s) THEN <<>>
    ELSE LET e == KeywordMatchEnd(s, i, kw, tail) IN
         IF e > 0 THEN StripKeyword(s, e, kw, tail)
         ELSE <<s[i]>> \o StripKeyword(s, i + 1, kw, tail)

\* the keyword patterns of the list, in the order of the source
KeywordPatterns == <<
    [kw |-> <<"b","r","a","n","c","h">>, tail |-> "optdigits"],
    [kw |-> <<"o","u","t","l","e","t">>, tail |-> "optdigits"],
    [kw |-> <<"s","t","o","r","e">>,     tail |-> "optdigits"],
    [kw |-> <<"s","h","o","p">>,         tail |-> "optdigits"],
    [kw |-> <<"s","e","c","t","o","r">>, tail |-> "reqdigits"],
    [kw |-> <<"p","h","a","s","e">>,     tail |-> "reqdigits"],
    [kw |-> <<"s","c","f">>,             tail |-> "reqdigits"],
    [kw |-> <<"s","c","o">>,             tail |-> "reqdigits"],
    [kw |-> <<"b","l","o","c","k">>,     tail |-> "reqword"],
    [kw |-> <<"m","a","l","l">>,         tail |-> "rest"],
    [kw |-> <<"m","a","r","k","e","t">>, tail |-> "rest"],
    [kw |-> <<"p","l","a","z","a">>,     tail |-> "rest"],
    [kw |-> <<"c","o","m","p","l","e","x">>, tail |-> "rest"] >>

\* the loop over the keyword patterns, from pattern n on
RECURSIVE StripKeywords(_, _)
StripKeywords(s, n) ==
    IF n > Len(KeywordPatterns) THEN s
    ELSE StripKeywords(
            StripKeyword(s, 1, KeywordPatterns[n].kw, KeywordPatterns[n].tail),
            n + 1)

\* the for loop over patterns: dash, comma, #digits, parentheses, keywords
StripPatterns(s) ==
    StripKeywords(
        StripParens(
            StripBranchNumber(
                StripFromChar(StripFromChar(s, "-"), ","), 1)), 1)

\* str.split(): the whitespace-separated words of s, from position i
RECURSIVE SplitWords(_, _)
SplitWords(s, i) ==
    LET b == SkipSpace(s, i) IN
    IF b > Len(s) THEN <<>>
    ELSE LET e == CHOOSE k \in (b + 1)..(Len(s) + 1) :
                      /\ k = Len(s) + 1 \/ IsSpace(s[k])
                      /\ \A m \in b..(k - 1) : ~IsSpace(s[m])
         IN <<SubSeq(s, b, e - 1)>> \o SplitWords(s, e)

\* ' '.join(words)
RECURSIVE JoinWords(_)
JoinWords(ws) ==
    IF ws = <<>> THEN <<>>
    ELSE IF Len(ws) = 1 THEN ws[1]
    ELSE ws[1] \o <<" ">> \o JoinWords(Tail(ws))

\* number of words of the core brand name
MaxBrandWords == 3

\* the last lines: first three words when there are more than three
TruncateWords(ws) ==
    IF Len(ws) > MaxBrandWords THEN SubSeq(ws, 1, MaxBrandWords) ELSE ws

\* _normalize_brand_name(name)
NormalizeBrandName(name) ==
    IF name = <<>> THEN <<>>
    ELSE LET lowered == Lower(name)
             noPoss  == RemoveAll(RemoveAll(lowered, <<"'", "s">>, 1), <<"'">>, 1)
             cleaned == StripPatterns(noPoss)
         IN JoinWords(TruncateWords(SplitWords(cleaned, 1)))

-----------------------------------------------------------------------------
(* Coordinates and distance.  A latitude or longitude is an integer number *)
(* of 1/10000 degrees; 0 stands for a missing coordinate (0 and None are   *)
(* both falsy in the source).                                              *)

EarthRadiusKm == 6371
MinDistanceM == 500

Abs(x) == IF x < 0 THEN -x ELSE x

\* _calculate_distance, in centimetres, rounded down.  The model's points lie
\* on one meridian (lon1 = lon2), where a = sin(dlat/2)^2 and c = dlat, so the
\* distance is R * dlat: R km * (d / 10000) deg * pi / 180, pi = 355/113.
CalculateDistance(lat1, lon1, lat2, lon2) ==
    (Abs(lat2 - lat1) * EarthRadiusKm * 355) \div (113 * 18)

\* the test of the inner loop body of _are_different_locations for one pair
PairIsDistant(b1, b2) ==
    /\ b1.lat # 0 /\ b1.lon # 0 /\ b2.lat # 0 /\ b2.lon # 0
    /\ CalculateDistance(b1.lat, b1.lon, b2.lat, b2.lon) >= MinDistanceM * 100

\* _are_different_locations(group1, group2)
AreDifferentLocations(group1, group2) ==
    \E i \in 1..Len(group1) : \E j \in 1..Len(group2) :
        PairIsDistant(group1[i], group2[j])

-----------------------------------------------------------------------------
(* difflib.SequenceMatcher(None, a, b).ratio() for short sequences (no     *)
(* junk; the autojunk heuristic needs 200 elements)                        *)

\* length of the common run of a from i and b from j, inside the windows
RECURSIVE CommonRun(_, _, _, _, _, _)
CommonRun(a, i, ahi, b, j, bhi) ==
    IF i <= ahi /\ j <= bhi /\ a[i] = b[j]
    THEN 1 + CommonRun(a, i + 1, ahi, b, j + 1, bhi)
    ELSE 0

\* find_longest_match: <<i, j, k>>, the longest block a[i..i+k-1] = b[j..j+k-1]
\* in a[alo..ahi], b[blo..bhi]; of the longest, the earliest in a, then in b
FindLongestMatch(a, alo, ahi, b, blo, bhi) ==
    LET starts == (alo..ahi) \X (blo..bhi)
        len(p) == CommonRun(a, p[1], ahi, b, p[2], bhi)
    IN IF starts = {} THEN <<alo, blo, 0>>
       ELSE LET best == CHOOSE p \in starts :
                    \A q \in starts :
                        \/ len(p) > len(q)
                        \/ /\ len(p) = len(q)
                           /\ \/ p[1] < q[1]
                              \/ p[1] = q[1] /\ p[2] <= q[2]
            IN <<best[1], best[2], len(best)>>

\* sum of the sizes of get_matching_blocks
RECURSIVE MatchingSize(_, _, _, _, _, _)
MatchingSize(a, alo, ahi, b, blo, bhi) ==
    LET m == FindLongestMatch(a, alo, ahi, b, blo, bhi) IN
    IF m[3] = 0 THEN 0
    ELSE MatchingSize(a, alo, m[1] - 1, b, blo, m[2] - 1) + m[3]
         + MatchingSize(a, m[1] + m[3], ahi, b, m[2] + m[3], bhi)

SimilarityThresholdPct == 85

\* SequenceMatcher(None, a, b).ratio() >= similarity_threshold, where ratio is
\* 2.0 * matches / (len(a) + len(b)), and 1.0 for two empty sequences
IsSimilar(a, b) ==
    IF Len(a) + Len(b) = 0 THEN TRUE
    ELSE 200 * MatchingSize(a, 1, Len(a), b, 1, Len(b))
            >= SimilarityThresholdPct * (Len(a) + Len(b))

-----------------------------------------------------------------------------
(* CityChainDetector.detect_chains_in_results.  A dict is a sequence of    *)
(* entries in insertion order, as Python iterates it.                      *)

\* position of key k in the dict d (0 if absent)
KeyIndex(d, k) ==
    IF \E i \in 1..Len(d) : d[i].key = k
    THEN CHOOSE i \in 1..Len(d) : d[i].key = k
    ELSE 0

\* d[k] = v
DictPut(d, k, v) ==
    IF KeyIndex(d, k) = 0 THEN Append(d, [key |-> k, val |-> v])
    ELSE [d EXCEPT ![KeyIndex(d, k)].val = v]

\* the grouping loop: name_groups[normalized].append(business) for every
\* business that has a name
RECURSIVE GroupByName(_, _, _)
GroupByName(results, i, groups) ==
    IF i > Len(results) THEN groups
    ELSE LET b == results[i] IN
         IF b.name = <<>> THEN GroupByName(results, i + 1, groups)
         ELSE LET k == NormalizeBrandName(b.name)
                  old == IF KeyIndex(groups, k) = 0 THEN <<>>
                         ELSE groups[KeyIndex(groups, k)].val
              IN GroupByName(results, i + 1, DictPut(groups, k, Append(old, b)))

\* faulty variant of MergeSimilar: a merged group is not added to processed
RECURSIVE MergeSimilarUnmarked(_, _, _, _)
MergeSimilarUnmarked(groups, n, j, acc) ==
    IF j > Len(groups) THEN acc
    ELSE IF groups[j].key = groups[n].key \/ groups[j].key \in acc.processed
         THEN MergeSimilarUnmarked(groups, n, j + 1, acc)
    ELSE IF /\ IsSimilar(groups[n].key, groups[j].key)
            /\ AreDifferentLocations(acc.cluster, groups[j].val)
         THEN MergeSimilarUnmarked(groups, n, j + 1,
                  [cluster |-> acc.cluster \o groups[j].val,
                   processed |-> acc.processed])
    ELSE MergeSimilarUnmarked(groups, n, j + 1, acc)

\* the inner loop over the other groups, from the j-th on; acc is
\* [cluster, processed]
RECURSIVE MergeSimilar(_, _, _, _)
MergeSimilar(groups, n, j, acc) ==
    IF j > Len(groups) THEN acc
    ELSE IF groups[j].key = groups[n].key \/ groups[j].key \in acc.processed
         THEN MergeSimilar(groups, n, j + 1, acc)
    ELSE IF /\ IsSimilar(groups[n].key, groups[j].key)
            /\ AreDifferentLocations(acc.cluster, groups[j].val)
         THEN MergeSimilar(groups, n, j + 1,
                  [cluster |-> acc.cluster \o groups[j].val,
                   processed |-> acc.processed \cup {groups[j].key}])
    ELSE MergeSimilar(groups, n, j + 1, acc)

\* name_counts: the literal names of the cluster with their counts, in the
\* order of their first occurrence
RECURSIVE CountNames(_, _, _)
CountNames(cluster, i, counts) ==
    IF i > Len(cluster) THEN counts
    ELSE LET nm == cluster[i].name
             old == IF KeyIndex(counts, nm) = 0 THEN 0
                    ELSE counts[KeyIndex(counts, nm)].val
         IN IF nm = <<>> THEN CountNames(cluster, i + 1, counts)
            ELSE CountNames(cluster, i + 1, DictPut(counts, nm, old + 1))

\* faulty variant of MostCommonName: of the largest counts the last one wins
MostCommonNameLast(counts) ==
    counts[CHOOSE i \in 1..Len(counts) :
              /\ \A j \in 1..Len(counts) : counts[j].val <= counts[i].val
              /\ \A j \in (i + 1)..Len(counts) : counts[j].val < counts[i].val].key

\* max(name_counts.items(), key=lambda x: x[1])[0]: the first of the largest
MostCommonName(counts) ==
    counts[CHOOSE i \in 1..Len(counts) :
              /\ \A j \in 1..Len(counts) : counts[j].val <= counts[i].val
              /\ \A j \in 1..(i - 1) : counts[j].val < counts[i].val].key

\* faulty variant of IsReportedChain: the test written len(cluster) > 2
IsReportedChainOverTwo(cluster) == Len(cluster) > 2

\* the test "if len(cluster) >= 2" before a cluster is stored
IsReportedChain(cluster) == Len(cluster) >= 2

\* the chain name under which a cluster is stored
ChainName(cluster, normalized_name) ==
    LET counts == CountNames(cluster, 1, <<>>) IN
    IF counts # <<>> THEN MostCommonName(counts) ELSE cluster[1].name

\* the outer loop over name_groups, from the n-th group on; st is
\* [processed, result_chains]
RECURSIVE ClusterGroups(_, _, _)
ClusterGroups(groups, n, st) ==
    IF n > Len(groups) THEN st.result_chains
    ELSE IF groups[n].key \in st.processed THEN ClusterGroups(groups, n + 1, st)
    ELSE LET m == MergeSimilar(groups, n, 1,
                      [cluster |-> groups[n].val, processed |-> st.processed])
             chains == IF IsReportedChain(m.cluster)
                       THEN DictPut(st.result_chains,
                                    ChainName(m.cluster, groups[n].key), m.cluster)
                       ELSE st.result_chains
         IN ClusterGroups(groups, n + 1,
                [processed |-> m.processed \cup {groups[n].key},
                 result_chains |-> chains])

\* the loop over name_groups and the return of the dict
ClusterNameGroups(groups) ==
    ClusterGroups(groups, 1, [processed |-> {}, result_chains |-> <<>>])

\* detect_chains_in_results(results): the dict chain name -> members
DetectChainsInResults(results) ==
    IF results = <<>> THEN <<>>
    ELSE ClusterNameGroups(GroupByName(results, 1, <<>>))

-----------------------------------------------------------------------------
(* The city-wide index: _load_city_database, _build_chain_index,           *)
(* check_if_chain                                                          *)

\* values that are not character strings: Python's None, and the float nan
\* that pandas.read_csv gives for a blank cell
None == <<"<None>">>
NaN == <<"<nan>">>

\* faulty variant of LoadCityDatabase: what read_csv got hold of is used although it
\* raised
LoadWhateverWasRead(db) == db.rows

\* _load_city_database: the rows of the data frame.  db.status is "absent"
\* (no file at the path), "unreadable" (read_csv raises) or "ok"
LoadCityDatabase(db) ==
    IF db.status = "ok" THEN db.rows ELSE <<>>

\* the loop of _build_chain_index over rows i.., on the index built so far;
\* normalising a nan name raises AttributeError (a float has no lower())
RECURSIVE IndexRows(_, _, _)
IndexRows(rows, i, index) ==
    IF i > Len(rows) THEN [raised |-> FALSE, index |-> index]
    ELSE LET name == rows[i].name IN
         IF name = <<>> THEN IndexRows(rows, i + 1, index)
         ELSE IF name = NaN THEN [raised |-> TRUE, index |-> <<>>]
         ELSE LET k == NormalizeBrandName(name)
                  old == IF KeyIndex(index, k) = 0 THEN <<>>
                         ELSE index[KeyIndex(index, k)].val
              IN IndexRows(rows, i + 1,
                     DictPut(index, k,
                         Append(old, [original_name |-> name,
                                      lat |-> rows[i].lat, lon |-> rows[i].lon])))

\* faulty variants of IsLocalChain: the filter written len(locations) >= 1, and
\* len(locations) > 2
IsLocalChainFromOne(locations) == Len(locations) >= 1
IsLocalChainOverTwo(locations) == Len(locations) > 2

\* the filter of _build_chain_index: brands with 2+ locations
IsLocalChain(locations) == Len(locations) >= 2

\* the dict comprehension local_chains
RECURSIVE FilterChains(_, _)
FilterChains(index, i) ==
    IF i > Len(index) THEN <<>>
    ELSE IF IsLocalChain(index[i].val)
         THEN <<index[i]>> \o FilterChains(index, i + 1)
         ELSE FilterChains(index, i + 1)

\* _build_chain_index
BuildChainIndex(rows) ==
    LET r == IndexRows(rows, 1, <<>>) IN
    IF r.raised THEN r ELSE [raised |-> FALSE, index |-> FilterChains(r.index, 1)]

\* str.upper() on one character
UpperChar(c) ==
    IF \E i \in 1..26 : LowerCase[i] = c
    THEN UpperCase[CHOOSE i \in 1..26 : LowerCase[i] = c]
    ELSE c

\* str.title(): a letter that follows a letter is lower-cased, any other
\* letter is upper-cased
Title(s) ==
    [i \in 1..Len(s) |->
        IF i > 1 /\ s[i - 1] \in Letters THEN LowerChar(s[i]) ELSE UpperChar(s[i])]

\* check_if_chain(business_name)
CheckIfChain(cache, business_name) ==
    LET normalized == NormalizeBrandName(business_name) IN
    IF KeyIndex(cache, normalized) # 0
    THEN LET locations == cache[KeyIndex(cache, normalized)].val IN
         [is_local_chain |-> TRUE,
          chain_name |-> Title(normalized),
          total_locations |-> Len(locations),
          locations |-> locations]
    ELSE [is_local_chain |-> FALSE,
          chain_name |-> None,
          total_locations |-> 1,
          locations |-> <<>>]

-----------------------------------------------------------------------------
(* LLMBrandDetector.identify_brand_status and _parse_brand_response.       *)
(* A confidence is an integer number of hundredths.  A response is        *)
(* [prefix, suffix, body]: body.kind is "None" (no content), "text" (not   *)
(* JSON), "list" (JSON, not an object) or "object".  A field of an object  *)
(* is [t, v]: t is "absent" (no such key), "null", "bool", "num", "str" or *)
(* "list" (a non-empty list).                                              *)

DefaultConfidence == 50

\* JSON values of a field
JAbsent == [t |-> "absent", b |-> FALSE, n |-> 0, s |-> ""]
JNull == [t |-> "null", b |-> FALSE, n |-> 0, s |-> ""]
JList == [t |-> "list", b |-> FALSE, n |-> 0, s |-> ""]
JBool(x) == [t |-> "bool", b |-> x, n |-> 0, s |-> ""]
JNum(x) == [t |-> "num", b |-> FALSE, n |-> x, s |-> ""]
JStr(x) == [t |-> "str", b |-> FALSE, n |-> 0, s |-> x]

\* the texts of string-typed fields that float() parses, with their values
NumericStrings == {"0.9"}
FloatOfString(str) == IF str = "0.9" THEN 90 ELSE 0

\* bool(parsed.get("is_branded", False))
PyBool(x) ==
    CASE x.t = "absent" -> FALSE
      [] x.t = "null" -> FALSE
      [] x.t = "bool" -> x.b
      [] x.t = "num" -> x.n # 0
      [] x.t = "str" -> x.s # ""
      [] OTHER -> TRUE             \* a non-empty list

\* whether float(parsed.get("confidence", 0.5)) raises
FloatRaises(x) ==
    \/ x.t \in {"null", "list"}
    \/ x.t = "str" /\ x.s \notin NumericStrings

\* float(parsed.get("confidence", 0.5))
PyFloat(x) ==
    CASE x.t = "absent" -> DefaultConfidence
      [] x.t = "bool" -> IF x.b THEN 100 ELSE 0
      [] x.t = "num" -> x.n
      [] OTHER -> FloatOfString(x.s)

\* str(parsed.get("brand_name", "")): the field is its text, <<>> if absent
PyStrName(name) == name

\* the classification that both except branches return; brand_name differs
FallbackClassification(brand_name, reasoning) ==
    [is_branded |-> FALSE, brand_name |-> brand_name,
     confidence |-> DefaultConfidence, reasoning |-> reasoning]

\* whether json.loads succeeds on the text left after the fences are cut:
\* a leading ```json and a trailing ``` are removed, a bare leading ``` is not
JsonLoads(response) ==
    /\ response.prefix # "plain_fence"
    /\ response.body.kind # "text"

\* _parse_brand_response(response)
ParseBrandResponse(response) ==
    IF response.body.kind = "None"          \* None.strip() raises
       \/ ~JsonLoads(response)              \* json.loads raises
       \/ response.body.kind # "object"     \* a list or a scalar has no get()
       \/ FloatRaises(response.body.confidence)
    THEN FallbackClassification(<<>>, "Error in parsing response")
    ELSE [is_branded |-> PyBool(response.body.is_branded),
          brand_name |-> PyStrName(response.body.brand_name),
          confidence |-> PyFloat(response.body.confidence),
          reasoning |-> "from response"]

\* identify_brand_status(business_name, ...): reply is what the client call
\* gives, [raised |-> TRUE] or [raised |-> FALSE, response |-> ...]
IdentifyBrandStatus(business_name, reply) ==
    IF reply.raised
    THEN FallbackClassification(business_name, "Fallback classification due to error")
    ELSE ParseBrandResponse(reply.response)

-----------------------------------------------------------------------------
(* LLMBrandDetector.batch_identify_brands and                              *)
(* CityChainDetector.enrich_businesses_with_chain_data                     *)

\* whether a classification is the one identify_brand_status returns when the
\* client call raised
IsCallFallback(info) == info.reasoning = "Fallback classification due to error"

\* business_copy = business.copy(); business_copy.update(brand_info)
ClassifiedBusiness(business, info) ==
    [name |-> business.name, lat |-> business.lat, lon |-> business.lon,
     is_branded |-> info.is_branded, brand_name |-> info.brand_name,
     confidence |-> info.confidence, reasoning |-> info.reasoning]

\* faulty variant of AppendClassified: a business whose call failed is left out
AppendUnlessFailed(classified, business, info) ==
    IF IsCallFallback(info) THEN classified
    ELSE Append(classified, ClassifiedBusiness(business, info))

\* classified_businesses.append(business_copy)
AppendClassified(classified, business, info) ==
    Append(classified, ClassifiedBusiness(business, info))

\* faulty variant of NextBusiness: a business whose call failed is tried again
RetryFailedBusiness(i, info) == IF IsCallFallback(info) THEN i ELSE i + 1

\* "for business in businesses": the loop goes on to the next business
\* whatever the call gave
NextBusiness(i, info) == i + 1

\* result_chain_info of a business that no chain location matches
NoResultChain == [is_result_chain |-> FALSE, chain_name |-> None,
                  total_result_locations |-> 0]

\* abs(loc.lat - business.lat) < 0.0001 and abs(loc.lon - business.lon) < 0.0001;
\* a coordinate is an integer number of 1/10000 degree
SameCoordinates(loc, business) ==
    /\ Abs(loc.lat - business.lat) < 1
    /\ Abs(loc.lon - business.lon) < 1

\* whether a location of the chain entry matches the business by coordinates
MatchesChain(chain, business) ==
    \E k \in 1..Len(chain.val) : SameCoordinates(chain.val[k], business)

\* the loop over result_chains.items(): the info of the first chain that has
\* a location at the coordinates of the business
ResultChainInfo(chains, business) ==
    IF \E c \in 1..Len(chains) : MatchesChain(chains[c], business)
    THEN LET first == CHOOSE c \in 1..Len(chains) :
                          /\ MatchesChain(chains[c], business)
                          /\ \A d \in 1..(c - 1) : ~MatchesChain(chains[d], business)
         IN [is_result_chain |-> TRUE,
             chain_name |-> chains[first].key,
             total_result_locations |-> Len(chains[first].val)]
    ELSE NoResultChain

\* truth value of a name in "x or y": None and '' are false
IsTruthyName(name) == name # None /\ name # <<>>

\* faulty variant of IsChain: the classification of the model is left out
IsChainWithoutLlm(city_info, result_info, is_branded) ==
    city_info.is_local_chain \/ result_info.is_result_chain

\* the test "chain_info['is_local_chain'] or is_result_chain or is_branded"
IsChain(city_info, result_info, is_branded) ==
    city_info.is_local_chain \/ result_info.is_result_chain \/ is_branded

\* local_chain_name of a business marked as a chain
LocalChainName(city_info, result_info, brand_name) ==
    IF IsTruthyName(city_info.chain_name) THEN city_info.chain_name
    ELSE IF result_info.is_result_chain THEN result_info.chain_name
    ELSE brand_name

\* faulty variant of TotalLocations: nothing is added for a business that no
\* result chain matches
TotalLocationsFromZero(city_info, result_info) ==
    city_info.total_locations + result_info.total_result_locations

\* total_locations of a business marked as a chain
TotalLocations(city_info, result_info) ==
    city_info.total_locations
    + (IF result_info.is_result_chain THEN result_info.total_result_locations ELSE 1)

\* the body of the loop of enrich_businesses_with_chain_data for one
\* classified business
EnrichBusiness(business, chains, cache) ==
    LET city_info == CheckIfChain(cache, business.name)
        result_info == ResultChainInfo(chains, business)
        chain == IsChain(city_info, result_info, business.is_branded)
    IN [name |-> business.name, lat |-> business.lat, lon |-> business.lon,
        is_branded |-> business.is_branded, brand_name |-> business.brand_name,
        confidence |-> business.confidence,
        city_chain_info |-> city_info,
        result_chain_info |-> result_info,
        is_local_chain |-> chain,
        is_chain |-> chain,
        local_chain_name |-> IF chain
                             THEN LocalChainName(city_info, result_info,
                                                 business.brand_name)
                             ELSE business.name,
        total_locations |-> IF chain THEN TotalLocations(city_info, result_info)
                            ELSE 1,
        brand_classification_confidence |-> business.confidence]

\* the loop of enrich_businesses_with_chain_data over the classified businesses
EnrichBusinesses(classified, chains, cache) ==
    [i \in 1..Len(classified) |-> EnrichBusiness(classified[i], chains, cache)]

\* batch_identify_brands on the whole list, replies[i] being what the client
\* call for the i-th business gave
RECURSIVE BatchIdentifyBrands(_, _, _, _)
BatchIdentifyBrands(records, replies, i, classified) ==
    IF i > Len(records) THEN classified
    ELSE LET info == IdentifyBrandStatus(records[i].name, replies[i]) IN
         BatchIdentifyBrands(records, replies, NextBusiness(i, info),
                             AppendClassified(classified, records[i], info))

\* enrich_businesses_with_chain_data from its call to its return
EnrichWithChainData(records, replies, cache) ==
    EnrichBusinesses(BatchIdentifyBrands(records, replies, 1, <<>>),
                     DetectChainsInResults(records), cache)

-----------------------------------------------------------------------------
(* Reviews: sentiment_node, SentimentAnalyzer and _add_sentiment_and_reviews *)

\* A review is [business_name, text_len, polarity, sentiment]: the length of
\* its text, the compound score (in hundredths) the analyzer gives that text,
\* and its "sentiment" entry, <<>> while the review has none.

\* thresholds of _get_sentiment_label, in hundredths
PositiveThreshold == 5
NegativeThreshold == -5

\* _get_sentiment_label
SentimentLabel(compound) ==
    IF compound >= PositiveThreshold THEN "positive"
    ELSE IF compound <= NegativeThreshold THEN "negative"
    ELSE "neutral"

\* the filter of sentiment_node: reviews whose text has more than 5 characters
MinValidLen == 5
IsValidReview(review) == review.text_len > MinValidLen
ValidReviews(reviews) == SelectSeq(reviews, IsValidReview)

\* analyze_reviews_batch: texts under 10 characters are passed over; a copy
\* of every other review gets its "sentiment"
MinAnalyzedLen == 10
RECURSIVE AnalyzeReviewsBatch(_, _)
AnalyzeReviewsBatch(reviews, i) ==
    IF i > Len(reviews) THEN <<>>
    ELSE IF reviews[i].text_len < MinAnalyzedLen THEN AnalyzeReviewsBatch(reviews, i + 1)
    ELSE << [business_name |-> reviews[i].business_name,
             text_len |-> reviews[i].text_len,
             polarity |-> reviews[i].polarity,
             sentiment |-> << [compound |-> reviews[i].polarity,
                               label |-> SentimentLabel(reviews[i].polarity)] >>] >>
         \o AnalyzeReviewsBatch(reviews, i + 1)

\* r.get("sentiment", {}).get("label") and .get("compound", 0)
LabelOf(review) ==
    IF review.sentiment = <<>> THEN "" ELSE review.sentiment[1].label
CompoundOf(review) ==
    IF review.sentiment = <<>> THEN 0 ELSE review.sentiment[1].compound

\* list.sort(key=compound): stable.  Ascending, or with reverse=True
\* descending; equal keys keep their order in both
RECURSIVE InsertSorted(_, _, _, _)
InsertSorted(sorted, review, descending, i) ==
    IF i > Len(sorted) THEN Append(sorted, review)
    ELSE IF (descending /\ CompoundOf(sorted[i]) < CompoundOf(review))
            \/ (~descending /\ CompoundOf(sorted[i]) > CompoundOf(review))
         THEN SubSeq(sorted, 1, i - 1) \o <<review>> \o SubSeq(sorted, i, Len(sorted))
         ELSE InsertSorted(sorted, review, descending, i + 1)
RECURSIVE SortByCompound(_, _, _, _)
SortByCompound(reviews, descending, i, sorted) ==
    IF i > Len(reviews) THEN sorted
    ELSE SortByCompound(reviews, descending, i + 1,
                        InsertSorted(sorted, reviews[i], descending, 1))

\* the slice [:2]
MaxTopReviews == 2
TopReviews(reviews) ==
    SubSeq(reviews, 1, IF Len(reviews) < MaxTopReviews THEN Len(reviews)
                       ELSE MaxTopReviews)

\* the reviews of one business with one label, sorted and cut
ReviewsLabelled(reviews, name, label, descending) ==
    LET IsOfBusiness(r) == r.business_name = name
        HasLabel(r) == LabelOf(r) = label
    IN TopReviews(SortByCompound(SelectSeq(SelectSeq(reviews, IsOfBusiness), HasLabel),
                                 descending, 1, <<>>))

\* _add_sentiment_and_reviews(businesses, sentiment_analysis, reviews_data):
\* the review lists it attaches; the reviews it reads are those of
\* reviews_data
AddSentimentAndReviews(records, reviews) ==
    [i \in 1..Len(records) |->
        records[i] @@
        [positive_reviews |-> ReviewsLabelled(reviews, records[i].name, "positive", TRUE),
         negative_reviews |-> ReviewsLabelled(reviews, records[i].name, "negative", FALSE)]]

-----------------------------------------------------------------------------
(* Inputs                                                                  *)

\* all sequences of at most n elements of S
RECURSIVE SeqsUpTo(_, _)
SeqsUpTo(S, n) ==
    IF n = 0 THEN {<<>>}
    ELSE LET shorter == SeqsUpTo(S, n - 1)
         IN shorter \cup {Append(q, x) : q \in shorter, x \in S}

\* concatenation of a sequence of strings
RECURSIVE Concat(_)
Concat(ps) == IF ps = <<>> THEN <<>> ELSE Head(ps) \o Concat(Tail(ps))

\* names for the normaliser: strings of at most MaxPieces pieces
MaxPieces == 3
Pieces == { <<"x">>, <<" ">>, <<"-">>, <<",">>, <<"#">>, <<"1">>, <<"(","y",")">>,
            <<"'">>, <<"s">>, <<"s","h","o","p">>, <<"B">> }
PieceNames == {Concat(ps) : ps \in SeqsUpTo(Pieces, MaxPieces)}

\* base names of one to three words, and the branch qualifiers added to them:
\* a possessive 's on word poss (0: none) and a trailing qualifier
BaseWords == { <<"S","h","a","r","m","a">>, <<"C","a","f","e">>, <<"x">> }
BaseNames == SeqsUpTo(BaseWords, MaxBrandWords) \ {<<>>}
Trails == { <<>>,
            <<" ","-"," ","S","e","c","t","o","r"," ","1","2">>,
            <<"-","x">>,
            <<","," ","P","h","a","s","e"," ","7">>,
            <<" ","#","3">>,
            <<"#","1","2">> }
NoQualifier == [poss |-> 0, trail |-> <<>>]
Qualifiers(base) == [poss : 0..Len(base), trail : Trails] \ {NoQualifier}
Qualify(base, q) ==
    JoinWords([i \in 1..Len(base) |->
                  IF i = q.poss THEN base[i] \o <<"'", "s">> ELSE base[i]])
    \o q.trail

\* result sets for the detector
MaxBusinesses == 3
LatA == 3074 * 100           \* 30.7400
LatNearA == LatA + 1         \* 30.7401: 11 m from LatA
LatB == 3070 * 100           \* 30.7000: 4.4 km from LatA
LonA == 7678 * 100           \* 76.7800
DetectNames == { <<"c","c","d">>, <<"c","c","d","-","9">>, <<"c","c","d","s">>,
                 <<"c","c","d","x">> }
Points == { [lat |-> 0, lon |-> 0], [lat |-> LatA, lon |-> LonA],
            [lat |-> LatNearA, lon |-> LonA], [lat |-> LatB, lon |-> LonA] }
BusinessRecords ==
    {[name |-> n, lat |-> p.lat, lon |-> p.lon] : n \in DetectNames, p \in Points}
    \cup {[name |-> <<>>, lat |-> LatA, lon |-> LonA]}

\* result sets that are handed to the detector in two orders
MaxReorderBusinesses == 3
ReorderRecords ==
    {[name |-> n, lat |-> p.lat, lon |-> p.lon] :
        n \in { <<"c","c","d">>, <<"c","c","d","s">>, <<"c","c","d","x">> },
        p \in {[lat |-> LatA, lon |-> LonA], [lat |-> LatB, lon |-> LonA]}}

\* backing lists for the index
MaxCityRows == 3
CityNames == { <<"c","c","d">>, <<"c","c","d","-","9">>, <<"-","x">>, <<>>, NaN }
CityPoints == { [lat |-> LatA, lon |-> LonA], [lat |-> LatB, lon |-> LonA] }
CityRows == {[name |-> n, lat |-> p.lat, lon |-> p.lon] : n \in CityNames, p \in CityPoints}
CityDatabases ==
    {[status |-> "absent", rows |-> <<>>]}
    \cup {[status |-> st, rows |-> r] : st \in {"ok", "unreadable"},
                                        r \in SeqsUpTo(CityRows, MaxCityRows)}
LookupNames == { <<"c","c","d">>, <<"c","c","d","-","9">>, <<"-","x">>, <<"x">>, <<>> }

\* replies of the client call of the classifier
JsonBranded == { JAbsent, JNull, JBool(TRUE), JBool(FALSE), JNum(0), JNum(1),
                 JStr("false"), JStr(""), JList }
JsonConfidence == { JAbsent, JNull, JBool(TRUE), JNum(90), JNum(50), JNum(150),
                    JNum(-20), JStr("0.9"), JStr("high"), JList }
JsonBrandName == { <<>>, <<"C","C","D">> }
NoFields == [kind |-> "text", is_branded |-> JAbsent, confidence |-> JAbsent,
             brand_name |-> <<>>]
JsonBodies ==
    {[NoFields EXCEPT !.kind = k] : k \in {"text", "list"}}
    \cup {[kind |-> "object", is_branded |-> b, confidence |-> c, brand_name |-> n] :
              b \in JsonBranded, c \in JsonConfidence, n \in JsonBrandName}
NoneResponse == [prefix |-> "none", suffix |-> "none",
                 body |-> [NoFields EXCEPT !.kind = "None"]]
Responses ==
    {NoneResponse}
    \cup [prefix : {"none", "json_fence", "plain_fence"}, suffix : {"none", "fence"},
          body : JsonBodies]
NoReply == [raised |-> TRUE, response |-> NoneResponse]
Replies == {NoReply} \cup {[raised |-> FALSE, response |-> r] : r \in Responses}
LlmNames == { <<"c","c","d">>, <<>> }

\* result sets, backing lists and replies for the enrichment
MaxEnrichBusinesses == 3
EnrichRecords ==
    { [name |-> <<"c","c","d">>, lat |-> LatA, lon |-> LonA],
      [name |-> <<"c","c","d","-","9">>, lat |-> LatB, lon |-> LonA],
      [name |-> <<"-","x">>, lat |-> LatA, lon |-> LonA],
      [name |-> <<"-","x">>, lat |-> LatB, lon |-> LonA] }
EnrichCityDatabases ==
    { [status |-> "absent", rows |-> <<>>],
      [status |-> "ok",
       rows |-> << [name |-> <<"c","c","d">>, lat |-> LatA, lon |-> LonA],
                   [name |-> <<"c","c","d","-","9">>, lat |-> LatB, lon |-> LonA] >>],
      [status |-> "ok",
       rows |-> << [name |-> <<"-","x">>, lat |-> LatA, lon |-> LonA],
                   [name |-> <<"-","x">>, lat |-> LatB, lon |-> LonA] >>] }
ObjectReply(b, c, n) ==
    [raised |-> FALSE,
     response |-> [prefix |-> "none", suffix |-> "none",
                   body |-> [kind |-> "object", is_branded |-> b, confidence |-> c,
                             brand_name |-> n]]]
EnrichReplies ==
    { NoReply,
      ObjectReply(JBool(TRUE), JNum(90), <<"C","C","D">>),
      ObjectReply(JBool(FALSE), JNum(150), <<>>) }

\* the state that reaches sentiment_node and chain_brand_node: the nearby
\* businesses, the reviews extract_reviews_node collected for them (without
\* a "sentiment" entry), and the backing list on disk
MaxNearbyBusinesses == 2
MaxReviews == 2
NearbyRecords ==
    { [name |-> <<"c","c","d">>, lat |-> LatA, lon |-> LonA],
      [name |-> <<"c","c","d","-","9">>, lat |-> LatB, lon |-> LonA],
      [name |-> <<"-","x">>, lat |-> LatA, lon |-> LonA] }
RawReview(name, len, polarity) ==
    [business_name |-> name, text_len |-> len, polarity |-> polarity,
     sentiment |-> <<>>]
RawReviews ==
    { RawReview(<<"c","c","d">>, 20, 80),
      RawReview(<<"c","c","d">>, 20, 30),
      RawReview(<<"c","c","d">>, 20, -50),
      RawReview(<<"c","c","d">>, 8, 80),
      RawReview(<<"-","x">>, 20, 0) }
NearbyCityDatabases ==
    { [status |-> "absent", rows |-> <<>>],
      [status |-> "ok",
       rows |-> << [name |-> <<"c","c","d">>, lat |-> LatA, lon |-> LonA],
                   [name |-> <<"c","c","d","-","9">>, lat |-> LatB, lon |-> LonA] >>],
      [status |-> "ok",
       rows |-> << [name |-> <<"c","c","d">>, lat |-> LatA, lon |-> LonA],
                   [name |-> NaN, lat |-> LatB, lon |-> LonA] >>] }

-----------------------------------------------------------------------------
(* The workflow graph of create_workflow                                   *)

START == "__start__"
END == "__end__"

\* the add_node calls
WorkflowNodes ==
    { "intent", "geocode", "find_amenities", "find_businesses", "extract_reviews",
      "sentiment_analysis", "all_businesses", "scraper", "llm_recommendation",
      "chart_generation", "format_output" }

\* faulty variant of WorkflowEdges: no edge leads to "scraper"
WorkflowEdgesWithoutScraper ==
    { <<START, "intent">>, <<"intent", "geocode">>, <<"geocode", "find_amenities">>,
      <<"find_amenities", "find_businesses">>, <<"find_businesses", "extract_reviews">>,
      <<"extract_reviews", "sentiment_analysis">>,
      <<"sentiment_analysis", "all_businesses">>,
      <<"all_businesses", "llm_recommendation">>,
      <<"llm_recommendation", "chart_generation">>,
      <<"chart_generation", "format_output">>, <<"format_output", END>> }

\* faulty variant of WorkflowEdges: a second edge leaves "intent"
WorkflowEdgesWithBranch ==
    { <<START, "intent">>, <<"intent", "geocode">>, <<"intent", "find_businesses">>,
      <<"geocode", "find_amenities">>,
      <<"find_amenities", "find_businesses">>, <<"find_businesses", "extract_reviews">>,
      <<"extract_reviews", "sentiment_analysis">>,
      <<"sentiment_analysis", "all_businesses">>, <<"all_businesses", "scraper">>,
      <<"scraper", "llm_recommendation">>, <<"llm_recommendation", "chart_generation">>,
      <<"chart_generation", "format_output">>, <<"format_output", END>> }

\* the add_edge calls
WorkflowEdges ==
    { <<START, "intent">>, <<"intent", "geocode">>, <<"geocode", "find_amenities">>,
      <<"find_amenities", "find_businesses">>, <<"find_businesses", "extract_reviews">>,
      <<"extract_reviews", "sentiment_analysis">>,
      <<"sentiment_analysis", "all_businesses">>, <<"all_businesses", "scraper">>,
      <<"scraper", "llm_recommendation">>, <<"llm_recommendation", "chart_generation">>,
      <<"chart_generation", "format_output">>, <<"format_output", END>> }

\* the targets of the edges that leave a node
Successors(node) == {e[2] : e \in {d \in WorkflowEdges : d[1] = node}}

\* What a node function can leave in the state: the outcome in current_step,
\* whether it writes "error", and the scraper_executed it writes.  Every node
\* function catches its exceptions and returns a state.

\* chain_brand_node, and likewise the intent, geocode, find_amenities,
\* find_businesses, extract_reviews, llm_recommendation, chart_generation and
\* format_output nodes: "<node>_completed", or "<node>_error" with "error"
CatchingOutcomes ==
    { [outcome |-> "completed", error |-> FALSE, executed |-> FALSE],
      [outcome |-> "error", error |-> TRUE, executed |-> FALSE] }

\* sentiment_node names the step "sentiment_error" without writing "error"
SentimentOutcomes ==
    { [outcome |-> "completed", error |-> FALSE, executed |-> FALSE],
      [outcome |-> "error", error |-> FALSE, executed |-> FALSE] }

\* scraper_node: skipped, completed, or failed and still "scraper_completed"
ScraperOutcomes ==
    { [outcome |-> "completed", error |-> FALSE, executed |-> TRUE],
      [outcome |-> "completed", error |-> FALSE, executed |-> FALSE],
      [outcome |-> "skipped", error |-> FALSE, executed |-> FALSE] }

StepOutcomes(node) ==
    CASE node = "sentiment_analysis" -> SentimentOutcomes
      [] node = "scraper" -> ScraperOutcomes
      [] OTHER -> CatchingOutcomes

\* faulty variant of ErrorAfter: a node that succeeds clears the message
ErrorOfLastNode(error, node, r) == IF r.error THEN node ELSE ""

\* state["error"] after a node returned {**state, ...}: the node's own
\* message when it took its except branch, else the value it copied
ErrorAfter(error, node, r) == IF r.error THEN node ELSE error

\* the answer of the /api/analyze handler to the final state: a non-empty
\* "error" gives success=False with the error and the default (empty) data
AnalysisResponse(error) ==
    IF error # "" THEN [success |-> FALSE, error |-> error, has_data |-> FALSE]
    ELSE [success |-> TRUE, error |-> "", has_data |-> TRUE]

-----------------------------------------------------------------------------
(* State machine                                                           *)

NormIdle ==
    /\ nm_base = <<>> /\ nm_qual = NoQualifier /\ nm_name = <<>>
    /\ nm_key = <<>> /\ nm_key_base = <<>> /\ nm_key_again = <<>>
DetectIdle ==
    /\ businesses = <<>> /\ name_groups = <<>> /\ result_chains = <<>>
    /\ reordered = <<>> /\ reordered_chains = <<>>
NoChainInfo == [is_local_chain |-> FALSE, chain_name |-> None,
                total_locations |-> 0, locations |-> <<>>]
IndexIdle ==
    /\ city_db = [status |-> "absent", rows |-> <<>>]
    /\ city_businesses_df = <<>> /\ chain_cache = <<>>
    /\ lookup_name = <<>> /\ chain_info = NoChainInfo
NoBrandInfo == [is_branded |-> FALSE, brand_name |-> <<>>, confidence |-> 0,
                reasoning |-> ""]
LlmIdle == llm_name = <<>> /\ llm_reply = NoReply /\ brand_info = NoBrandInfo
EnrichIdle ==
    /\ batch_index = 1 /\ llm_calls = <<>> /\ outstanding_calls = 0
    /\ classified_businesses = <<>> /\ enriched = <<>>
WorkflowIdle ==
    /\ wf_node = START /\ wf_visited = <<>>
    /\ wf_current_step = <<START, "initialized">> /\ wf_error = ""
    /\ wf_scraper_executed = FALSE
    /\ api_response = <<>>
ChainBrandIdle ==
    /\ reviews_data = <<>> /\ review_sentiments = <<>>
    /\ nearby_businesses = <<>> /\ chain_brands = <<>>
    /\ current_step = "initialized"

\* a name, or a base name with a qualifier, is handed to the normaliser
InitNorm ==
    /\ pc = "norm_call"
    /\ \/ /\ nm_name \in PieceNames
          /\ nm_base = nm_name
          /\ nm_qual = NoQualifier
       \/ \E base \in BaseNames : \E q \in Qualifiers(base) :
             /\ nm_base = JoinWords(base)
             /\ nm_qual = q
             /\ nm_name = Qualify(base, q)
    /\ nm_key = <<>> /\ nm_key_base = <<>> /\ nm_key_again = <<>>
    /\ DetectIdle /\ IndexIdle /\ LlmIdle /\ EnrichIdle /\ WorkflowIdle /\ ChainBrandIdle

\* key = _normalize_brand_name(name)
Normalize ==
    /\ pc = "norm_call"
    /\ nm_key' = NormalizeBrandName(nm_name)
    /\ pc' = "norm_keyed"
    /\ UNCHANGED <<nm_base, nm_qual, nm_name, nm_key_base, nm_key_again>>
    /\ UNCHANGED <<detectVars, indexVars, llmVars, enrichVars, wfVars, cbVars>>

\* _normalize_brand_name(key): the key is normalised once more
NormalizeAgain ==
    /\ pc = "norm_keyed"
    /\ nm_key_again' = NormalizeBrandName(nm_key)
    /\ pc' = "norm_again"
    /\ UNCHANGED <<nm_base, nm_qual, nm_name, nm_key, nm_key_base>>
    /\ UNCHANGED <<detectVars, indexVars, llmVars, enrichVars, wfVars, cbVars>>

\* _normalize_brand_name(base): the key of the name without its qualifier
NormalizeBase ==
    /\ pc = "norm_keyed"
    /\ nm_qual # NoQualifier
    /\ nm_key_base' = NormalizeBrandName(nm_base)
    /\ pc' = "norm_based"
    /\ UNCHANGED <<nm_base, nm_qual, nm_name, nm_key, nm_key_again>>
    /\ UNCHANGED <<detectVars, indexVars, llmVars, enrichVars, wfVars, cbVars>>

NextNorm == Normalize \/ NormalizeAgain \/ NormalizeBase
SpecNorm == InitNorm /\ [][NextNorm]_vars

\* a result set is handed to the detector
InitDetect ==
    /\ pc = "detect_call"
    /\ businesses \in SeqsUpTo(BusinessRecords, MaxBusinesses)
    /\ name_groups = <<>> /\ result_chains = <<>>
    /\ reordered = <<>> /\ reordered_chains = <<>>
    /\ NormIdle /\ IndexIdle /\ LlmIdle /\ EnrichIdle /\ WorkflowIdle /\ ChainBrandIdle

\* detect_chains_in_results(businesses)
DetectChains ==
    /\ pc = "detect_call"
    /\ name_groups' = GroupByName(businesses, 1, <<>>)
    /\ result_chains' = IF businesses = <<>> THEN <<>>
                        ELSE ClusterNameGroups(name_groups')
    /\ pc' = "detected"
    /\ UNCHANGED <<businesses, reordered, reordered_chains>>
    /\ UNCHANGED <<normVars, indexVars, llmVars, enrichVars, wfVars, cbVars>>

NextDetect == DetectChains
SpecDetect == InitDetect /\ [][NextDetect]_vars

\* a result set is handed to the detector, to be handed to it again in
\* another order
InitReorder ==
    /\ pc = "detect_call"
    /\ businesses \in SeqsUpTo(ReorderRecords, MaxReorderBusinesses)
    /\ name_groups = <<>> /\ result_chains = <<>>
    /\ reordered = <<>> /\ reordered_chains = <<>>
    /\ NormIdle /\ IndexIdle /\ LlmIdle /\ EnrichIdle /\ WorkflowIdle /\ ChainBrandIdle

\* detect_chains_in_results on a permutation of the result set
DetectReordered ==
    /\ pc = "detected"
    /\ \E f \in Permutations(1..Len(businesses)) :
          LET results == [i \in 1..Len(businesses) |-> businesses[f[i]]] IN
          /\ reordered' = results
          /\ reordered_chains' = DetectChainsInResults(results)
    /\ pc' = "detected_again"
    /\ UNCHANGED <<businesses, name_groups, result_chains>>
    /\ UNCHANGED <<normVars, indexVars, llmVars, enrichVars, wfVars, cbVars>>

NextReorder == DetectChains \/ DetectReordered
SpecReorder == InitReorder /\ [][NextReorder]_vars

\* a backing list lies (or not) at city_database_path
InitIndex ==
    /\ pc = "construct"
    /\ city_db \in CityDatabases
    /\ city_businesses_df = <<>> /\ chain_cache = <<>>
    /\ lookup_name = <<>> /\ chain_info = NoChainInfo
    /\ NormIdle /\ DetectIdle /\ LlmIdle /\ EnrichIdle /\ WorkflowIdle /\ ChainBrandIdle

\* CityChainDetector.__init__: load the list and build the index
Construct ==
    /\ pc = "construct"
    /\ LET df == LoadCityDatabase(city_db)
           built == BuildChainIndex(df)
       IN /\ city_businesses_df' = df
          /\ \/ /\ ~built.raised
                /\ chain_cache' = built.index
                /\ pc' = "ready"
             \/ /\ built.raised
                /\ chain_cache' = <<>>
                /\ pc' = "construct_raised"
    /\ UNCHANGED <<city_db, lookup_name, chain_info>>
    /\ UNCHANGED <<normVars, detectVars, llmVars, enrichVars, wfVars, cbVars>>

\* check_if_chain(name) on the constructed detector
LookUp ==
    /\ pc \in {"ready", "looked_up"}
    /\ \E name \in LookupNames :
          /\ lookup_name' = name
          /\ chain_info' = CheckIfChain(chain_cache, name)
    /\ pc' = "looked_up"
    /\ UNCHANGED <<city_db, city_businesses_df, chain_cache>>
    /\ UNCHANGED <<normVars, detectVars, llmVars, enrichVars, wfVars, cbVars>>

NextIndex == Construct \/ LookUp
SpecIndex == InitIndex /\ [][NextIndex]_vars

\* a business is handed to the classifier
InitLlm ==
    /\ pc = "classify_call"
    /\ llm_name \in LlmNames
    /\ llm_reply = NoReply
    /\ brand_info = NoBrandInfo
    /\ NormIdle /\ DetectIdle /\ IndexIdle /\ EnrichIdle /\ WorkflowIdle /\ ChainBrandIdle

\* identify_brand_status(name): one client call, whatever it gives
Classify ==
    /\ pc = "classify_call"
    /\ \E reply \in Replies :
          /\ llm_reply' = reply
          /\ brand_info' = IdentifyBrandStatus(llm_name, reply)
    /\ pc' = "classified"
    /\ UNCHANGED <<llm_name, normVars, detectVars, indexVars, enrichVars, wfVars, cbVars>>

NextLlm == Classify
SpecLlm == InitLlm /\ [][NextLlm]_vars

\* chain_brand_node has constructed the detector over a backing list and
\* hands a result set to enrich_businesses_with_chain_data
InitEnrich ==
    /\ pc = "enrich_call"
    /\ businesses \in SeqsUpTo(EnrichRecords, MaxEnrichBusinesses)
    /\ name_groups = <<>> /\ result_chains = <<>>
    /\ reordered = <<>> /\ reordered_chains = <<>>
    /\ city_db \in EnrichCityDatabases
    /\ city_businesses_df = LoadCityDatabase(city_db)
    /\ chain_cache = BuildChainIndex(city_businesses_df).index
    /\ lookup_name = <<>> /\ chain_info = NoChainInfo
    /\ batch_index = 1 /\ llm_calls = <<>> /\ outstanding_calls = 0
    /\ classified_businesses = <<>> /\ enriched = <<>>
    /\ NormIdle /\ LlmIdle /\ WorkflowIdle /\ ChainBrandIdle

\* result_chains = self.detect_chains_in_results(businesses), and the entry
\* into batch_identify_brands
EnrichDetect ==
    /\ pc = "enrich_call"
    /\ name_groups' = GroupByName(businesses, 1, <<>>)
    /\ result_chains' = IF businesses = <<>> THEN <<>>
                        ELSE ClusterNameGroups(name_groups')
    /\ pc' = "batch_loop"
    /\ UNCHANGED <<businesses, reordered, reordered_chains>>
    /\ UNCHANGED <<normVars, indexVars, llmVars, enrichVars, wfVars, cbVars>>

\* batch_identify_brands: identify_brand_status is entered for the next
\* business and calls the client
BatchIssueCall ==
    /\ pc = "batch_loop"
    /\ batch_index <= Len(businesses)
    /\ llm_name' = businesses[batch_index].name
    /\ llm_calls' = Append(llm_calls, batch_index)
    /\ outstanding_calls' = outstanding_calls + 1
    /\ pc' = "batch_waiting"
    /\ UNCHANGED <<llm_reply, brand_info, batch_index, classified_businesses, enriched>>
    /\ UNCHANGED <<normVars, detectVars, indexVars, wfVars, cbVars>>

\* the client call returns or raises; identify_brand_status returns and the
\* classified copy of the business is appended
BatchReceiveReply ==
    /\ pc = "batch_waiting"
    /\ \E reply \in EnrichReplies :
          LET info == IdentifyBrandStatus(llm_name, reply) IN
          /\ llm_reply' = reply
          /\ brand_info' = info
          /\ classified_businesses' =
                AppendClassified(classified_businesses, businesses[batch_index], info)
          /\ batch_index' = NextBusiness(batch_index, info)
    /\ outstanding_calls' = outstanding_calls - 1
    /\ pc' = "batch_loop"
    /\ UNCHANGED <<llm_name, llm_calls, enriched>>
    /\ UNCHANGED <<normVars, detectVars, indexVars, wfVars, cbVars>>

\* batch_identify_brands returns; the loop of
\* enrich_businesses_with_chain_data builds the enriched list
EnrichMerge ==
    /\ pc = "batch_loop"
    /\ batch_index > Len(businesses)
    /\ enriched' = EnrichBusinesses(classified_businesses, result_chains, chain_cache)
    /\ pc' = "enriched"
    /\ UNCHANGED <<batch_index, llm_calls, outstanding_calls, classified_businesses>>
    /\ UNCHANGED <<normVars, detectVars, indexVars, llmVars, wfVars, cbVars>>

NextEnrich == EnrichDetect \/ BatchIssueCall \/ BatchReceiveReply \/ EnrichMerge
SpecEnrich == InitEnrich /\ [][NextEnrich]_vars

\* workflow.invoke(initial_state)
InitWorkflow ==
    /\ pc = "workflow"
    /\ wf_node = START
    /\ wf_visited = <<>>
    /\ wf_current_step = <<START, "initialized">>
    /\ wf_error = ""
    /\ wf_scraper_executed = FALSE
    /\ api_response = <<>>
    /\ NormIdle /\ DetectIdle /\ IndexIdle /\ LlmIdle /\ EnrichIdle /\ ChainBrandIdle

\* the node at the end of an edge that leaves the last node runs to its end
RunNode ==
    /\ pc = "workflow"
    /\ \E node \in Successors(wf_node) \ {END} :
       \E r \in StepOutcomes(node) :
          /\ wf_node' = node
          /\ wf_visited' = Append(wf_visited, node)
          /\ wf_current_step' = <<node, r.outcome>>
          /\ wf_error' = ErrorAfter(wf_error, node, r)
          /\ wf_scraper_executed' = IF node = "scraper" THEN r.executed
                                    ELSE wf_scraper_executed
    /\ UNCHANGED <<pc, api_response>>
    /\ UNCHANGED <<normVars, detectVars, indexVars, llmVars, enrichVars, cbVars>>

\* the edge to END: invoke returns the state
FinishWorkflow ==
    /\ pc = "workflow"
    /\ END \in Successors(wf_node)
    /\ wf_node' = END
    /\ pc' = "workflow_done"
    /\ UNCHANGED <<wf_visited, wf_current_step, wf_error, wf_scraper_executed>>
    /\ UNCHANGED api_response
    /\ UNCHANGED <<normVars, detectVars, indexVars, llmVars, enrichVars, cbVars>>

\* the /api/analyze handler answers with the state that invoke returned
AnalyzeBusiness ==
    /\ pc = "workflow_done"
    /\ api_response' = <<AnalysisResponse(wf_error)>>
    /\ pc' = "responded"
    /\ UNCHANGED <<wf_node, wf_visited, wf_current_step, wf_error, wf_scraper_executed>>
    /\ UNCHANGED <<normVars, detectVars, indexVars, llmVars, enrichVars, cbVars>>

NextWorkflow == RunNode \/ FinishWorkflow \/ AnalyzeBusiness
SpecWorkflow == InitWorkflow /\ [][NextWorkflow]_vars

\* invoke runs the graph in one thread and every node function returns, so
\* a step that can be taken is taken
SpecWorkflowFair == SpecWorkflow /\ WF_vars(NextWorkflow)

\* the state after extract_reviews_node, about to enter sentiment_node
InitChainBrand ==
    /\ pc = "sentiment_node"
    /\ businesses \in SeqsUpTo(NearbyRecords, MaxNearbyBusinesses)
    /\ reviews_data \in SeqsUpTo(RawReviews, MaxReviews)
    /\ city_db \in NearbyCityDatabases
    /\ review_sentiments = <<>>
    /\ nearby_businesses = <<>> /\ chain_brands = <<>>
    /\ current_step = "extract_reviews_completed"
    /\ name_groups = <<>> /\ result_chains = <<>>
    /\ reordered = <<>> /\ reordered_chains = <<>>
    /\ city_businesses_df = <<>> /\ chain_cache = <<>>
    /\ lookup_name = <<>> /\ chain_info = NoChainInfo
    /\ NormIdle /\ LlmIdle /\ EnrichIdle /\ WorkflowIdle

\* sentiment_node: the analysed copies go to
\* sentiment_analysis["review_sentiments"]; reviews_data is returned as it
\* came.  Without reviews, or when the analyzer raises, sentiment_analysis
\* has no "review_sentiments"
SentimentNode ==
    /\ pc = "sentiment_node"
    /\ \/ /\ reviews_data = <<>>
          /\ review_sentiments' = <<>>
          /\ current_step' = "sentiment_completed"
       \/ /\ reviews_data # <<>>
          /\ review_sentiments' = AnalyzeReviewsBatch(ValidReviews(reviews_data), 1)
          /\ current_step' = "sentiment_completed"
       \/ /\ reviews_data # <<>>
          /\ review_sentiments' = <<>>
          /\ current_step' = "sentiment_error"
    /\ pc' = "chain_brand_node"
    /\ UNCHANGED <<reviews_data, nearby_businesses, chain_brands>>
    /\ UNCHANGED <<normVars, detectVars, indexVars, llmVars, enrichVars, wfVars>>

\* chain_brand_node: the detector is constructed (the index is built, the
\* client is created), the businesses are enriched and get their review
\* lists; whatever raises on the way leads to the except branch
ChainBrandNode ==
    /\ pc = "chain_brand_node"
    /\ LET built == BuildChainIndex(LoadCityDatabase(city_db)) IN
       \E client_raised \in BOOLEAN :
          IF built.raised \/ client_raised
          THEN /\ chain_brands' = <<>>
               /\ nearby_businesses' = <<>>
               /\ current_step' = "chain_brand_error"
          ELSE \E replies \in [1..Len(businesses) -> EnrichReplies] :
               LET enriched_businesses ==
                       AddSentimentAndReviews(
                           EnrichWithChainData(businesses, replies, built.index),
                           reviews_data)
               IN /\ chain_brands' = enriched_businesses
                  /\ nearby_businesses' = enriched_businesses
                  /\ current_step' = "chain_brand_completed"
    /\ pc' = "chain_brand_returned"
    /\ UNCHANGED <<reviews_data, review_sentiments>>
    /\ UNCHANGED <<normVars, detectVars, indexVars, llmVars, enrichVars, wfVars>>

NextChainBrand == SentimentNode \/ ChainBrandNode
SpecChainBrand == InitChainBrand /\ [][NextChainBrand]_vars

Init == InitNorm \/ InitDetect \/ InitReorder \/ InitIndex \/ InitLlm \/ InitEnrich
        \/ InitWorkflow \/ InitChainBrand
Next == NextNorm \/ NextDetect \/ NextReorder \/ NextIndex \/ NextLlm \/ NextEnrich
        \/ NextWorkflow \/ NextChainBrand
Spec == Init /\ [][Next]_vars

-----------------------------------------------------------------------------
(* Properties of detect_chains_in_results (checked under SpecDetect)       *)

\* both records carry coordinates
Located(b1, b2) == b1.lat # 0 /\ b1.lon # 0 /\ b2.lat # 0 /\ b2.lon # 0

\* the record b is a member of the chain entry c
IsMember(b, c) == \E i \in 1..Len(c.val) : c.val[i] = b

\* every record of the exact-key group g is a member of the chain entry c
GroupInChain(g, c) == \A i \in 1..Len(g.val) : IsMember(g.val[i], c)

\* every record of the group carries coordinates
GroupLocated(g) == \A i \in 1..Len(g.val) : g.val[i].lat # 0 /\ g.val[i].lon # 0

\* C1: two exact-key groups (distinct Canonical Brand Keys, all records with
\* coordinates) that end up in the same reported chain have some record of
\* the one and some record of the other at least 0.5 km apart.
C1_MergedGroupsAreApart ==
    pc = "detected" =>
        \A c \in 1..Len(result_chains) :
            \A g1, g2 \in 1..Len(name_groups) :
                ( /\ g1 # g2
                  /\ GroupLocated(name_groups[g1]) /\ GroupLocated(name_groups[g2])
                  /\ GroupInChain(name_groups[g1], result_chains[c])
                  /\ GroupInChain(name_groups[g2], result_chains[c]) )
                => AreDifferentLocations(name_groups[g1].val, name_groups[g2].val)

\* C2: in every reported chain, every two member records (that carry
\* coordinates) are at least 0.5 km apart.
C2_ChainMembersApart ==
    pc = "detected" =>
        \A c \in 1..Len(result_chains) :
            \A i, j \in 1..Len(result_chains[c].val) :
                (i < j /\ Located(result_chains[c].val[i], result_chains[c].val[j]))
                => PairIsDistant(result_chains[c].val[i], result_chains[c].val[j])

\* the records of the result set all have a name and one Canonical Brand Key
OneKeyResultSet ==
    /\ Len(name_groups) = 1
    /\ Len(name_groups[1].val) = Len(businesses)

\* C3: a result set whose records share one Canonical Brand Key and all lie
\* less than 0.5 km from each other yields no chain.
C3_DuplicateListingsNoChain ==
    ( /\ pc = "detected"
      /\ OneKeyResultSet
      /\ \A i, j \in 1..Len(businesses) :
            /\ Located(businesses[i], businesses[j])
            /\ ~PairIsDistant(businesses[i], businesses[j]) )
    => result_chains = <<>>

\* C6: a result set of two records with equal Canonical Brand Keys, more than
\* 0.5 km apart, yields exactly one chain, whose members are those two.
C6_MatchingKeysOneChain ==
    ( /\ pc = "detected"
      /\ Len(businesses) = 2
      /\ OneKeyResultSet
      /\ Located(businesses[1], businesses[2])
      /\ CalculateDistance(businesses[1].lat, businesses[1].lon,
                           businesses[2].lat, businesses[2].lon) > MinDistanceM * 100 )
    => /\ Len(result_chains) = 1
       /\ result_chains[1].val = businesses

\* C6 witness: two differently qualified names of one brand, 4.4 km apart,
\* reported as one chain
C6_Witness ==
    /\ pc = "detected"
    /\ Len(businesses) = 2
    /\ OneKeyResultSet
    /\ businesses[1].name # businesses[2].name
    /\ businesses[1].lat = LatA /\ businesses[2].lat = LatB
    /\ Len(result_chains) = 1
    /\ Len(result_chains[1].val) = 2

-----------------------------------------------------------------------------
(* Properties of _normalize_brand_name (checked under SpecNorm)            *)

\* C4: normalising a key again gives the same key.
C4_NormalizeIdempotent ==
    pc = "norm_again" => nm_key_again = nm_key

\* C5: a base name of at most three words with a dash suffix, a comma suffix,
\* a #digits branch number or a possessive 's has the key of the base name.
C5_QualifiersKeepKey ==
    pc = "norm_based" => nm_key = nm_key_base

\* C5 witness: "Sharma's Cafe #3" has the key "sharma cafe" of "Sharma Cafe"
C5_Witness ==
    /\ pc = "norm_based"
    /\ nm_name = <<"S","h","a","r","m","a","'","s"," ","C","a","f","e"," ","#","3">>
    /\ nm_base = <<"S","h","a","r","m","a"," ","C","a","f","e">>
    /\ nm_key = <<"s","h","a","r","m","a"," ","c","a","f","e">>
    /\ nm_key_base = nm_key

-----------------------------------------------------------------------------
(* Properties of the city-wide index (checked under SpecIndex)             *)

\* number of rows of the loaded list whose name is n
Occurrences(n) ==
    Cardinality({i \in 1..Len(city_businesses_df) : city_businesses_df[i].name = n})

\* number of named rows of the loaded list whose Canonical Brand Key is that
\* of the name n
RowsWithKeyOf(n) ==
    Cardinality({i \in 1..Len(city_businesses_df) :
        /\ city_businesses_df[i].name # <<>>
        /\ NormalizeBrandName(city_businesses_df[i].name) = NormalizeBrandName(n)})

\* number of named rows with another name and the Canonical Brand Key of n
OtherRowsWithKeyOf(n) ==
    Cardinality({i \in 1..Len(city_businesses_df) :
        /\ city_businesses_df[i].name # <<>>
        /\ city_businesses_df[i].name # n
        /\ NormalizeBrandName(city_businesses_df[i].name) = NormalizeBrandName(n)})

\* C7 as stated: a name that occurs exactly once in the list is reported as
\* no chain, whatever other records the list contains.
C7_SingleOccurrenceNotChain ==
    (pc = "looked_up" /\ Occurrences(lookup_name) = 1)
    => /\ ~chain_info.is_local_chain
       /\ chain_info.total_locations = 1

\* C7 as amended: a name that occurs exactly once in the list, no other
\* record of which has the name's Canonical Brand Key, is reported as no
\* chain with total_locations 1.
C7_SingleKeyNotChain ==
    (pc = "looked_up" /\ Occurrences(lookup_name) = 1
        /\ OtherRowsWithKeyOf(lookup_name) = 0)
    => /\ ~chain_info.is_local_chain
       /\ chain_info.total_locations = 1

\* C7 witness: the name occurs once beside two records of another brand,
\* which form a chain of the index
C7_Witness ==
    /\ pc = "looked_up"
    /\ lookup_name = <<"c","c","d">>
    /\ Occurrences(lookup_name) = 1
    /\ OtherRowsWithKeyOf(lookup_name) = 0
    /\ Len(chain_cache) = 1
    /\ ~chain_info.is_local_chain

\* C8: a non-empty name that occurs two or more times in the list is reported
\* as a chain, with as many locations as records share its key.
C8_RepeatedNameIsChain ==
    (pc = "looked_up" /\ lookup_name # <<>> /\ Occurrences(lookup_name) >= 2)
    => /\ chain_info.is_local_chain
       /\ chain_info.total_locations = RowsWithKeyOf(lookup_name)
       /\ chain_info.total_locations >= 2

\* C8 witness: the name occurs twice at one and the same location
C8_Witness ==
    /\ pc = "looked_up"
    /\ lookup_name = <<"c","c","d">>
    /\ Len(city_businesses_df) = 2
    /\ city_businesses_df[1] = city_businesses_df[2]
    /\ city_businesses_df[1].name = lookup_name
    /\ chain_info.is_local_chain
    /\ chain_info.total_locations = 2

-----------------------------------------------------------------------------
(* Properties of identify_brand_status (checked under SpecLlm)             *)

\* the client call failed: it raised, or gave no content, text that is not
\* JSON, JSON that is no object, or an object with a wrong-typed is_branded
\* or confidence
ModelCallError(reply) ==
    \/ reply.raised
    \/ reply.response.body.kind # "object"
    \/ reply.response.prefix = "plain_fence"
    \/ reply.response.body.is_branded.t \notin {"absent", "bool"}
    \/ reply.response.body.confidence.t \notin {"absent", "num"}

\* C10: on any error of the model call the classification has
\* is_branded = false and confidence = 0.5.
C10_ClassifierFailsClosed ==
    (pc = "classified" /\ ModelCallError(llm_reply))
    => /\ ~brand_info.is_branded
       /\ brand_info.confidence = DefaultConfidence

-----------------------------------------------------------------------------
(* Properties of enrich_businesses_with_chain_data and                     *)
(* batch_identify_brands (checked under SpecEnrich)                        *)

\* some reported chain has a location at the coordinates of the business:
\* the business is flagged as a member of a result-set chain
FlaggedInResultChain(b) ==
    \E c \in 1..Len(result_chains) : \E k \in 1..Len(result_chains[c].val) :
        /\ result_chains[c].val[k].lat = b.lat
        /\ result_chains[c].val[k].lon = b.lon

\* the reported chains the business is a member of
ChainsOf(b) == {c \in 1..Len(result_chains) : IsMember(b, result_chains[c])}

\* C11: an enriched record has is_chain, and is_local_chain, true exactly if
\* the city index reports its name as a chain, or it was flagged as a member
\* of a result-set chain, or its classification says is_branded.
C11_MergeRule ==
    pc = "enriched" =>
        \A i \in 1..Len(enriched) :
            /\ enriched[i].is_chain
                  = ( \/ CheckIfChain(chain_cache, businesses[i].name).is_local_chain
                      \/ FlaggedInResultChain(businesses[i])
                      \/ classified_businesses[i].is_branded )
            /\ enriched[i].is_local_chain = enriched[i].is_chain

\* C11 witness: of two businesses that neither the index nor the result set
\* knows, the one the model calls branded is a chain, the other is not
C11_Witness ==
    /\ pc = "enriched"
    /\ Len(enriched) = 2
    /\ chain_cache = <<>> /\ result_chains = <<>>
    /\ classified_businesses[1].is_branded /\ enriched[1].is_chain
    /\ ~classified_businesses[2].is_branded /\ ~enriched[2].is_chain

\* C12: the chain name of an enriched record with is_chain is the city-index
\* brand name if the index reports a chain, else the name of the result-set
\* chain the record is in, else the brand name of the classification.
C12_ChainNamePreference ==
    pc = "enriched" =>
        \A i \in 1..Len(enriched) :
            enriched[i].is_chain =>
                LET city == CheckIfChain(chain_cache, businesses[i].name) IN
                IF city.is_local_chain
                THEN enriched[i].local_chain_name = city.chain_name
                ELSE IF ChainsOf(businesses[i]) # {}
                THEN \E c \in ChainsOf(businesses[i]) :
                        enriched[i].local_chain_name = result_chains[c].key
                ELSE enriched[i].local_chain_name = classified_businesses[i].brand_name

\* C13: total_locations of an enriched record with is_chain is the location
\* count of the city lookup plus the number of members of the result-set
\* chain the record was matched with, zero if it was matched with none.
C13_TotalLocationsSum ==
    pc = "enriched" =>
        \A i \in 1..Len(enriched) :
            enriched[i].is_chain =>
                enriched[i].total_locations
                    = CheckIfChain(chain_cache, businesses[i].name).total_locations
                      + ResultChainInfo(result_chains, businesses[i]).total_result_locations

\* the record r is the business b, with whatever was added to it
SameBusiness(r, b) == r.name = b.name /\ r.lat = b.lat /\ r.lon = b.lon

\* C14: batch_identify_brands and enrich_businesses_with_chain_data return
\* one record per input business, in input order, whichever calls fail.
C14_ResultSetPreserved ==
    /\ (pc = "enriched" \/ (pc = "batch_loop" /\ batch_index > Len(businesses)))
       => /\ Len(classified_businesses) = Len(businesses)
          /\ \A i \in 1..Len(businesses) :
                SameBusiness(classified_businesses[i], businesses[i])
    /\ pc = "enriched"
       => /\ Len(enriched) = Len(businesses)
          /\ \A i \in 1..Len(enriched) : SameBusiness(enriched[i], businesses[i])

\* C14 witness: three businesses, the call for the second raised, the other
\* two calls did not
C14_Witness ==
    /\ pc = "enriched"
    /\ Len(businesses) = 3 /\ Len(enriched) = 3
    /\ ~IsCallFallback(classified_businesses[1])
    /\ IsCallFallback(classified_businesses[2])
    /\ ~IsCallFallback(classified_businesses[3])
    /\ businesses[1].name # businesses[3].name

\* C18: no classification call is issued for a business that the city index
\* or the result-set clustering identifies as a chain.
C18_LlmOnlyForUncaught ==
    \A k \in 1..Len(llm_calls) :
        LET b == businesses[llm_calls[k]] IN
        /\ ~CheckIfChain(chain_cache, b.name).is_local_chain
        /\ ChainsOf(b) = {}

\* C19: at most one client call is outstanding; the calls are issued in input
\* order, one per business, also for a business whose call failed.
C19_SequentialNoRetry ==
    /\ outstanding_calls \in {0, 1}
    /\ Len(llm_calls) <= Len(businesses)
    /\ \A k \in 1..Len(llm_calls) : llm_calls[k] = k
    /\ pc = "enriched" => Len(llm_calls) = Len(businesses)

\* C19 witness: the batch is over three businesses, the first call raised and
\* three calls were issued
C19_Witness ==
    /\ pc = "enriched"
    /\ Len(businesses) = 3
    /\ IsCallFallback(classified_businesses[1])
    /\ llm_calls = <<1, 2, 3>>

\* C20: every confidence identify_brand_status returns, and every
\* brand_classification_confidence, lies between 0 and 1 (0..100 hundredths).
C20_ConfidenceInRange ==
    /\ brand_info.confidence \in 0..100
    /\ \A i \in 1..Len(classified_businesses) :
          classified_businesses[i].confidence \in 0..100
    /\ \A i \in 1..Len(enriched) :
          enriched[i].brand_classification_confidence \in 0..100

-----------------------------------------------------------------------------
(* Further properties of detect_chains_in_results (checked under           *)
(* SpecDetect)                                                             *)

\* the groups g1 and g2 satisfy the merge criterion
MergeCriterion(g1, g2) ==
    /\ IsSimilar(g1.key, g2.key)
    /\ AreDifferentLocations(g1.val, g2.val)

\* C16: three exact-key groups A, B, C with A and B, and B and C, satisfying
\* the merge criterion are reported in one chain.
C16_TransitiveMerge ==
    pc = "detected" =>
        \A a, b, c \in 1..Len(name_groups) :
            ( /\ a # b /\ b # c /\ a # c
              /\ MergeCriterion(name_groups[a], name_groups[b])
              /\ MergeCriterion(name_groups[b], name_groups[c]) )
            => \E ch \in 1..Len(result_chains) :
                  /\ GroupInChain(name_groups[a], result_chains[ch])
                  /\ GroupInChain(name_groups[b], result_chains[ch])
                  /\ GroupInChain(name_groups[c], result_chains[ch])

\* number of members of the cluster that carry the literal name
NameCount(cluster, name) ==
    Cardinality({i \in 1..Len(cluster) : cluster[i].name = name})

\* position of the first member of the cluster that carries the literal name
FirstWithName(cluster, name) ==
    CHOOSE i \in 1..Len(cluster) :
        /\ cluster[i].name = name
        /\ \A j \in 1..(i - 1) : cluster[j].name # name

\* C17: every reported chain has at least 2 members, and its name is the
\* literal name most frequent among them, of equally frequent names the one
\* encountered first.
C17_ReportedChainNamed ==
    pc = "detected" =>
        \A c \in 1..Len(result_chains) :
            LET cluster == result_chains[c].val
                name == result_chains[c].key
            IN /\ Len(cluster) >= 2
               /\ \E i \in 1..Len(cluster) : cluster[i].name = name
               /\ \A j \in 1..Len(cluster) :
                     \/ NameCount(cluster, cluster[j].name) < NameCount(cluster, name)
                     \/ /\ NameCount(cluster, cluster[j].name) = NameCount(cluster, name)
                        /\ FirstWithName(cluster, name)
                              <= FirstWithName(cluster, cluster[j].name)

\* C17 witness: a chain of two members with different literal names, named
\* after the first, and a lone business that is not reported
C17_Witness ==
    /\ pc = "detected"
    /\ Len(businesses) = 3
    /\ Len(result_chains) = 1
    /\ Len(result_chains[1].val) = 2
    /\ result_chains[1].val[1].name # result_chains[1].val[2].name
    /\ result_chains[1].key = result_chains[1].val[1].name

-----------------------------------------------------------------------------
(* Properties of the workflow graph (checked under SpecWorkflow)           *)

\* no branching and no fan-out: one edge leaves START and every node
SingleSuccessors ==
    \A n \in WorkflowNodes \cup {START} : Cardinality(Successors(n)) = 1

\* C15 as stated: every step has exactly one successor and a run visits nine
\* nodes between START and END.
C15_SequentialNineSteps ==
    /\ SingleSuccessors
    /\ wf_node = END => Len(wf_visited) = 9

\* C15: every step has exactly one successor and a run visits the eleven
\* nodes of the graph, each once, between START and END.
C15_SequentialElevenSteps ==
    /\ SingleSuccessors
    /\ \A i, j \in 1..Len(wf_visited) : i # j => wf_visited[i] # wf_visited[j]
    /\ wf_node = END
       => /\ Len(wf_visited) = 11
          /\ {wf_visited[i] : i \in 1..Len(wf_visited)} = WorkflowNodes

\* C15 witness: a run that reached END although the chain detection step
\* reported an error
C15_Witness ==
    /\ wf_node = END
    /\ Len(wf_visited) = 11
    /\ wf_visited[7] = "all_businesses"
    /\ wf_error = "all_businesses"

-----------------------------------------------------------------------------
(* Further properties of the city-wide index (checked under SpecIndex)     *)

\* the rows of the list that have a name
RowsWithName(rows) == SelectSeq(rows, LAMBDA r : r.name # <<>> /\ r.name # NaN)

\* C21: a row whose name is empty, missing or not-a-number is skipped: the
\* build completes and the index is the one built from the other rows.
C21_MissingNameSkipped ==
    pc \in {"ready", "construct_raised", "looked_up"} =>
        /\ pc # "construct_raised"
        /\ chain_cache = BuildChainIndex(RowsWithName(city_businesses_df)).index

\* C29: the empty Canonical Brand Key is no key of the index, and the lookup
\* of a name that normalises to the empty string reports no chain.
C29_EmptyKeyNoChain ==
    /\ KeyIndex(chain_cache, <<>>) = 0
    /\ (pc = "looked_up" /\ NormalizeBrandName(lookup_name) = <<>>)
       => ~chain_info.is_local_chain

-----------------------------------------------------------------------------
(* Disjointness of the reported chains (checked under SpecDetect)          *)

\* C26: no two reported chains share a name or a member record, and every
\* exact-key group of two or more records is in a reported chain (no
\* reported cluster was overwritten).
C26_ChainsDisjoint ==
    pc = "detected" =>
        /\ \A c, d \in 1..Len(result_chains) :
              c # d =>
                 /\ result_chains[c].key # result_chains[d].key
                 /\ \A i \in 1..Len(result_chains[c].val) :
                       ~IsMember(result_chains[c].val[i], result_chains[d])
        /\ \A g \in 1..Len(name_groups) :
              Len(name_groups[g].val) >= 2
              => \E c \in 1..Len(result_chains) :
                    GroupInChain(name_groups[g], result_chains[c])

\* C26 witness: a group of two records was merged into the cluster of a
\* similar group and is reported once, in that chain
C26_Witness ==
    /\ pc = "detected"
    /\ Len(name_groups) = 2
    /\ Len(name_groups[2].val) = 2
    /\ Len(result_chains) = 1
    /\ Len(result_chains[1].val) = 3

-----------------------------------------------------------------------------
(* Further properties of enrich_businesses_with_chain_data (checked under  *)
(* SpecEnrich)                                                             *)

\* C28: a business is flagged as a result-set chain member only if it is a
\* member record of a reported chain, and the chain name and member count
\* recorded for it are those of a chain it belongs to.
C28_FlagOnlyMembers ==
    pc = "enriched" =>
        \A i \in 1..Len(enriched) :
            enriched[i].result_chain_info.is_result_chain =>
                \E c \in ChainsOf(businesses[i]) :
                    /\ enriched[i].result_chain_info.chain_name = result_chains[c].key
                    /\ enriched[i].result_chain_info.total_result_locations
                          = Len(result_chains[c].val)

\* C30: in every enriched record is_chain equals is_local_chain; a record
\* that is no chain has total_locations 1 and its own name as
\* local_chain_name; a record that is a chain has total_locations >= 2.
C30_EnrichedRecordShape ==
    pc = "enriched" =>
        \A i \in 1..Len(enriched) :
            /\ enriched[i].is_chain = enriched[i].is_local_chain
            /\ ~enriched[i].is_local_chain
               => /\ enriched[i].total_locations = 1
                  /\ enriched[i].local_chain_name = enriched[i].name
            /\ enriched[i].is_local_chain => enriched[i].total_locations >= 2

\* C30 witness: a business that only the model calls branded, with
\* total_locations 2, next to a business that is no chain
C30_Witness ==
    /\ pc = "enriched"
    /\ Len(enriched) = 2
    /\ enriched[1].is_local_chain
    /\ ~enriched[1].city_chain_info.is_local_chain
    /\ ~enriched[1].result_chain_info.is_result_chain
    /\ enriched[1].total_locations = 2
    /\ ~enriched[2].is_local_chain

-----------------------------------------------------------------------------
(* Order independence of detect_chains_in_results (checked under           *)
(* SpecReorder)                                                            *)

\* the chains of a returned dict, each as the set of its member records
ChainSets(chains) ==
    {{chains[c].val[i] : i \in 1..Len(chains[c].val)} : c \in 1..Len(chains)}

\* C27: every permutation of the result set yields the same set of chains,
\* each chain viewed as its set of member records.
C27_OrderIndependent ==
    pc = "detected_again" => ChainSets(reordered_chains) = ChainSets(result_chains)

-----------------------------------------------------------------------------
(* Termination and the error field of a pipeline run (checked under        *)
(* SpecWorkflowFair)                                                       *)

\* the order in which the edges chain the eleven nodes
PipelineOrder ==
    << "intent", "geocode", "find_amenities", "find_businesses", "extract_reviews",
       "sentiment_analysis", "all_businesses", "scraper", "llm_recommendation",
       "chart_generation", "format_output" >>

\* C23: every run reaches END, and at END each node has run exactly once in
\* the fixed order, whichever nodes took their except branch on the way.
C23_RunTerminatesInOrder ==
    /\ <>(wf_node = END)
    /\ [](wf_node = END => wf_visited = PipelineOrder)
    /\ [](\A i \in 1..Len(wf_visited) : wf_visited[i] = PipelineOrder[i])

\* the first node failed, every later node ran, and the run is at END
C23_Witness ==
    /\ wf_node = END
    /\ wf_error = "intent"
    /\ wf_visited = PipelineOrder
    /\ wf_current_step = <<"format_output", "completed">>

\* C25: a non-empty error is never cleared by a later node, and the handler
\* answers a final state that carries an error with success=false, that
\* error and no data, all eleven nodes having run.
C25_ErrorSticky ==
    /\ [][wf_error # "" => wf_error' # ""]_vars
    /\ [](pc = "responded" /\ wf_error # "" =>
            /\ api_response = <<[success |-> FALSE, error |-> wf_error,
                                 has_data |-> FALSE]>>
            /\ Len(wf_visited) = Len(PipelineOrder))

\* find_businesses failed, the seven later nodes succeeded, and the handler
\* answered with the failure
C25_Witness ==
    /\ pc = "responded"
    /\ wf_error = "find_businesses"
    /\ wf_current_step = <<"format_output", "completed">>
    /\ ~api_response[1].success
    /\ api_response[1].error = "find_businesses"

-----------------------------------------------------------------------------
(* Properties of chain_brand_node (checked under SpecChainBrand)           *)

\* C22: in every outcome of chain_brand_node the returned nearby_businesses
\* and chain_brands hold one record for each business that was in
\* nearby_businesses on entry.
C22_NoBusinessDropped ==
    pc = "chain_brand_returned" =>
        /\ Len(nearby_businesses) = Len(businesses)
        /\ Len(chain_brands) = Len(businesses)
        /\ \A i \in 1..Len(businesses) :
              /\ nearby_businesses[i].name = businesses[i].name
              /\ chain_brands[i].name = businesses[i].name

\* the reviews of a business that sentiment_node labelled with a label
LabelledReviews(name, label) ==
    {review_sentiments[k] : k \in {j \in 1..Len(review_sentiments) :
        /\ review_sentiments[j].business_name = name
        /\ LabelOf(review_sentiments[j]) = label}}

\* a list attached to a record is non-empty, has at most two reviews, all
\* of them among the given ones, the strongest first
AttachedFrom(attached, labelled, descending) ==
    /\ attached # <<>>
    /\ Len(attached) <= MaxTopReviews
    /\ \A k \in 1..Len(attached) : attached[k] \in labelled
    /\ \A k \in 1..Len(attached) - 1 :
          IF descending THEN CompoundOf(attached[k]) >= CompoundOf(attached[k + 1])
          ELSE CompoundOf(attached[k]) <= CompoundOf(attached[k + 1])

\* C24: when sentiment_node labelled a review of a business positive, the
\* record chain_brand_node produces for the business has a non-empty
\* positive_reviews of at most two of these reviews, most positive first;
\* likewise negative_reviews.
C24_ReviewsAttached ==
    pc = "chain_brand_returned" =>
        \A i \in 1..Len(chain_brands) :
            /\ LabelledReviews(chain_brands[i].name, "positive") # {} =>
                  AttachedFrom(chain_brands[i].positive_reviews,
                               LabelledReviews(chain_brands[i].name, "positive"), TRUE)
            /\ LabelledReviews(chain_brands[i].name, "negative") # {} =>
                  AttachedFrom(chain_brands[i].negative_reviews,
                               LabelledReviews(chain_brands[i].name, "negative"), FALSE)

=============================================================================
